---- MODULE Spec2Model ----
(***************************************************************************)
(* Trainer of naslib/optimizers/core/evaluator.py: the search loop, the    *)
(* evaluation loop, the checkpoints they write and resume from, and the    *)
(* statistics file errors_<seed>.json.                                     *)
(*                                                                         *)
(* The collaborators (the NAS optimizer, the architecture, the scheduler,  *)
(* fvcore's Checkpointer and PeriodicCheckpointer, the data loaders) are   *)
(* modelled by the calls Trainer makes to them, recorded in `calls`, and   *)
(* by the state those calls leave behind (scheduler.last_epoch, the last   *)
(* checkpoint of a save directory, the mode of the architecture).          *)
(* The numbers the loops compute (losses, accuracies, the averages of the  *)
(* meters, run times) are not interpreted.                                 *)
(***************************************************************************)
EXTENDS Integers, Sequences, FiniteSets, TLC

\* ------------------------------------------------------------------ bounds
MaxEpochs == 2           \* config.search.epochs, config.evaluation.epochs in 1..MaxEpochs
NumTrainBatches == 1     \* batches of zip(train_queue, valid_queue) and of train_queue
NumTestBatches == 2      \* batches of test_queue
MaxRecorded == 2         \* epochs one Trainer object records in errors_dict

VARIABLES
    config,          \* [search_epochs, evaluation_epochs]                (line 34)
    using_step_function, \* optimizer.using_step_function                 (line 98)
    search_dir,      \* last checkpoint of <save>/search on disk
    eval_dir,        \* last checkpoint of <save>/eval on disk
    errors_file,     \* errors_<seed>.json on disk
    errors_dict,     \* self.errors_dict                                  (line 51)
    scheduler,       \* self.scheduler                                    (line 99)
    checkpointer,    \* self.checkpointer / self.periodic_checkpointer    (line 75)
    pc,              \* position of the running call, "idle" between calls
    op,              \* the call running or last run: "none", "search", "evaluate"
    outcome,         \* how the last call ended
    args,            \* arguments of the call: resume_from, search_model, retrain
    start_epoch,     \* local start_epoch                                 (lines 102, 239)
    e,               \* loop variable e                                   (lines 104, 253)
    step,            \* loop variable step / i                            (lines 109, 254, 287)
    best_arch,       \* local best_arch: [QUERYABLE, mode]                (line 213)
    eval_scheduler,  \* local scheduler of evaluate                       (line 236)
    resume_arg,      \* the value last passed to checkpointer.resume_or_load (line 89)
    calls,           \* calls made to the collaborators by the running call
    at_call          \* what the call found at its start: the last checkpoint, the
                     \* entries of errors_dict and the entries of the file

vars == <<config, using_step_function, search_dir, eval_dir, errors_file, errors_dict,
          scheduler, checkpointer, pc, op, outcome, args, start_epoch, e,
          step, best_arch, eval_scheduler, resume_arg, calls, at_call>>

\* ------------------------------------------------------------ Python values
\* A str and a 1-tuple holding a str are different values (line 210).
PyStr(s) == [type |-> "str", value |-> s]
PyTuple1(s) == [type |-> "tuple", value |-> s]
\* Truth value of `if resume_from:` (line 87): an empty str is false, a
\* non-empty str and a non-empty tuple are true.
Truthy(v) == ~(v.type = "str" /\ v.value = "")

save == "run"                                                   \* config.save
\* os.path.join(a, b, c) on relative components
os_path_join(a, b, c) == a \o "/" \o b \o "/" \o c

\* errors_dict as __init__ builds it (lines 51-60); 'params' is a constant.
EmptyErrorsDict ==
    [train_acc |-> <<>>, train_loss |-> <<>>, valid_acc |-> <<>>, valid_loss |-> <<>>,
     test_acc |-> <<>>, test_loss |-> <<>>, runtime |-> <<>>]

\* ------------------------------------------------------------- disk values
NoCheckpoint == [exists |-> FALSE, iteration |-> 0, scheduler |-> 0, final |-> FALSE]
NoFile == [exists |-> FALSE, data |-> EmptyErrorsDict]

Call(name, n) == [op |-> name, n |-> n]

\* --------------------------------------------------------- checkpointers
\* PeriodicCheckpointer(period=1, max_iter).step(iteration) (lines 81-85, 129,
\* 274): every iteration is saved with {"iteration": iteration} and the state
\* of the checkpointables; the last one is also saved as model_final.
periodic_checkpointer_step(iteration, sched, max_iter) ==
    [exists |-> TRUE, iteration |-> iteration, scheduler |-> sched.last_epoch,
     final |-> iteration >= max_iter - 1]

\* A resume that starts again at the epoch of the checkpoint.
setup_checkpointers_same_epoch(resume_from, dir) ==
    IF Truthy(resume_from) /\ dir.exists THEN dir.iteration ELSE 0

\* The value _setup_checkpointers returns (lines 87-92).
setup_checkpointers(resume_from, dir) ==
    IF Truthy(resume_from) /\ dir.exists THEN dir.iteration + 1 ELSE 0

\* A resume with no scheduler among the checkpointables.
resume_or_load_without_scheduler(resume_from, dir, sched) == sched

\* The scheduler after _setup_checkpointers (line 89): resume_or_load with
\* resume=True loads the last checkpoint of the save directory into the
\* checkpointables, when there is one.
resume_or_load(resume_from, dir, sched) ==
    IF Truthy(resume_from) /\ dir.exists
    THEN [sched EXCEPT !.last_epoch = dir.scheduler]
    ELSE sched

\* The locals of a call before it starts and after an exception has left it.
NoArgs == [resume_from |-> PyStr(""), search_model |-> PyStr(""), retrain |-> FALSE]
NothingFound == [checkpoint |-> NoCheckpoint, len |-> 0, logged |-> 0]
NoScheduler == [set |-> FALSE, last_epoch |-> 0]
NoArch == [QUERYABLE |-> FALSE, mode |-> "none"]

\* ------------------------------------------------------------------- Init
Init ==
    /\ config \in [search_epochs : 1..MaxEpochs, evaluation_epochs : 1..MaxEpochs]
    /\ using_step_function \in BOOLEAN
    /\ search_dir = NoCheckpoint
    /\ eval_dir = NoCheckpoint
    /\ errors_file = NoFile
    /\ errors_dict = EmptyErrorsDict
    /\ scheduler = NoScheduler
    /\ checkpointer = [set |-> FALSE, save_dir |-> "", max_iter |-> 0]
    /\ pc = "idle"
    /\ op = "none"
    /\ outcome = "none"
    /\ args = NoArgs
    /\ start_epoch = 0
    /\ e = 0
    /\ step = 0
    /\ best_arch = NoArch
    /\ eval_scheduler = NoScheduler
    /\ resume_arg = PyStr("")
    /\ calls = <<>>
    /\ at_call = NothingFound

\* Trainer.__init__ (lines 31-60): a new Trainer, in this process or in a new
\* one after the old one ended; what is on disk stays.
TrainerInit ==
    /\ pc = "idle"
    /\ op # "none"
    /\ errors_dict' = EmptyErrorsDict
    /\ scheduler' = NoScheduler
    /\ checkpointer' = [set |-> FALSE, save_dir |-> "", max_iter |-> 0]
    /\ op' = "none"
    /\ outcome' = "none"
    /\ calls' = <<>>
    /\ best_arch' = NoArch
    /\ eval_scheduler' = NoScheduler
    /\ args' = NoArgs
    /\ start_epoch' = 0
    /\ e' = 0
    /\ step' = 0
    /\ resume_arg' = PyStr("")
    /\ at_call' = NothingFound
    /\ UNCHANGED <<config, using_step_function, search_dir, eval_dir, errors_file, pc>>

\* The paths a caller resumes from: none, or a checkpoint file of the run.
ResumeFrom == {PyStr(""), PyStr(os_path_join(save, "search", "model_0000000.pth"))}

\* ----------------------------------------------------------------- search
\* search, lines 95-102: before_training, the scheduler of a step-function
\* optimizer, then _setup_checkpointers(resume_from, scheduler=self.scheduler).
\* self.scheduler is assigned nowhere else: reading it at line 102 raises
\* AttributeError when the optimizer uses no step function.
search_begin ==
    /\ pc = "idle"
    /\ \E resume_from \in ResumeFrom :
        LET sched == IF using_step_function
                     THEN [set |-> TRUE, last_epoch |-> 0]
                     ELSE scheduler
        IN  /\ op' = "search"
            /\ args' = [NoArgs EXCEPT !.resume_from = resume_from]
            /\ at_call' = [checkpoint |-> search_dir, len |-> Len(errors_dict.runtime),
                            logged |-> Len(errors_file.data.runtime)]
            /\ IF sched.set
               THEN /\ scheduler' = resume_or_load(resume_from, search_dir, sched)
                    /\ checkpointer' = [set |-> TRUE, save_dir |-> "search",
                                        max_iter |-> config.search_epochs]
                    /\ resume_arg' = IF Truthy(resume_from) THEN resume_from ELSE PyStr("")
                    /\ start_epoch' = setup_checkpointers(resume_from, search_dir)
                    /\ e' = setup_checkpointers(resume_from, search_dir)
                    /\ calls' = <<Call("before_training", 0), Call("setup_checkpointers", 0)>>
                    /\ pc' = "s_loop"
                    /\ outcome' = "running"
               ELSE /\ calls' = <<Call("before_training", 0)>>
                    /\ pc' = "idle"
                    /\ outcome' = "AttributeError"
                    /\ resume_arg' = PyStr("")
                    /\ start_epoch' = 0
                    /\ e' = 0
                    /\ UNCHANGED <<scheduler, checkpointer>>
    /\ step' = 0
    /\ eval_scheduler' = NoScheduler
    /\ best_arch' = NoArch
    /\ UNCHANGED <<config, using_step_function, search_dir, eval_dir, errors_file,
                   errors_dict>>

\* line 104-105: the next epoch of range(start_epoch, self.epochs)
search_new_epoch ==
    /\ pc = "s_loop"
    /\ e < config.search_epochs
    /\ Len(errors_dict.runtime) < MaxRecorded
    /\ calls' = Append(calls, Call("new_epoch", e))
    /\ step' = 0
    /\ pc' = IF using_step_function THEN "s_batch" ELSE "s_stats"
    /\ UNCHANGED <<config, using_step_function, search_dir, eval_dir, errors_file,
                   errors_dict, scheduler, checkpointer, op, outcome, args,
                   start_epoch, e, best_arch, eval_scheduler, resume_arg, at_call>>

\* lines 109-126: one batch of zip(train_queue, valid_queue)
search_step ==
    /\ pc = "s_batch"
    /\ step < NumTrainBatches
    /\ calls' = Append(calls, Call("optimizer_step", step))
    /\ step' = step + 1
    /\ UNCHANGED <<config, using_step_function, search_dir, eval_dir, errors_file,
                   errors_dict, scheduler, checkpointer, pc, op, outcome, args,
                   start_epoch, e, best_arch, eval_scheduler, resume_arg, at_call>>

\* line 128: self.scheduler.step()
search_scheduler_step ==
    /\ pc = "s_batch"
    /\ step = NumTrainBatches
    /\ scheduler' = [scheduler EXCEPT !.last_epoch = @ + 1]
    /\ calls' = Append(calls, Call("scheduler_step", e))
    /\ pc' = "s_checkpoint"
    /\ UNCHANGED <<config, using_step_function, search_dir, eval_dir, errors_file,
                   errors_dict, checkpointer, op, outcome, args,
                   start_epoch, e, step, best_arch, eval_scheduler, resume_arg, at_call>>

\* line 129: self.periodic_checkpointer.step(e)
search_checkpoint ==
    /\ pc = "s_checkpoint"
    /\ search_dir' = periodic_checkpointer_step(e, scheduler, checkpointer.max_iter)
    /\ calls' = Append(calls, Call("checkpointer_step", e))
    /\ pc' = "s_stats"
    /\ UNCHANGED <<config, using_step_function, eval_dir, errors_file,
                   errors_dict, scheduler, checkpointer, op, outcome, args,
                   start_epoch, e, step, best_arch, eval_scheduler, resume_arg, at_call>>

\* lines 131-137 and 139-147: one value per list for the epoch. The values
\* themselves (averages of the meters, or what train_statistics() returns, and
\* a time difference) are not interpreted: each is the token of its kind.
append_statistics_without_runtime(d, source) ==
    [d EXCEPT !.train_acc = Append(@, source), !.train_loss = Append(@, source),
              !.valid_acc = Append(@, source), !.valid_loss = Append(@, source)]

append_statistics(d, source) ==
    [d EXCEPT !.train_acc = Append(@, source), !.train_loss = Append(@, source),
              !.valid_acc = Append(@, source), !.valid_loss = Append(@, source),
              !.runtime = Append(@, "seconds")]

search_statistics ==
    /\ pc = "s_stats"
    /\ errors_dict' = append_statistics(errors_dict,
                          IF using_step_function THEN "avg" ELSE "train_statistics")
    /\ calls' = IF using_step_function THEN calls
                ELSE Append(calls, Call("train_statistics", e))
    /\ pc' = "s_test"
    /\ UNCHANGED <<config, using_step_function, search_dir, eval_dir, errors_file,
                   scheduler, checkpointer, op, outcome, args,
                   start_epoch, e, step, best_arch, eval_scheduler, resume_arg, at_call>>

\* lines 149-153: optimizer.test_statistics() and the anytime results
append_anytime(d, anytime_results) ==
    IF anytime_results
    THEN [d EXCEPT !.test_acc = Append(@, "anytime"), !.test_loss = Append(@, "anytime")]
    ELSE d

search_test_statistics ==
    /\ pc = "s_test"
    /\ \E anytime_results \in BOOLEAN :
        errors_dict' = append_anytime(errors_dict, anytime_results)
    /\ calls' = Append(calls, Call("test_statistics", e))
    /\ pc' = "s_log"
    /\ UNCHANGED <<config, using_step_function, search_dir, eval_dir, errors_file,
                   scheduler, checkpointer, op, outcome, args,
                   start_epoch, e, step, best_arch, eval_scheduler, resume_arg, at_call>>

\* log_to_json (lines 191-197): the file is opened with 'w' and holds the
\* dump of errors_dict.
log_to_json(d) == [exists |-> TRUE, data |-> d]

\* line 155
search_log_to_json ==
    /\ pc = "s_log"
    /\ errors_file' = log_to_json(errors_dict)
    /\ calls' = Append(calls, Call("log_to_json", e))
    /\ pc' = "s_reset"
    /\ UNCHANGED <<config, using_step_function, search_dir, eval_dir,
                   errors_dict, scheduler, checkpointer, op, outcome, args,
                   start_epoch, e, step, best_arch, eval_scheduler, resume_arg, at_call>>

\* line 156, and back to line 104
search_log_and_reset ==
    /\ pc = "s_reset"
    /\ e' = e + 1
    /\ pc' = "s_loop"
    /\ UNCHANGED <<config, using_step_function, search_dir, eval_dir, errors_file,
                   errors_dict, scheduler, checkpointer, op, outcome, args,
                   start_epoch, step, best_arch, eval_scheduler, resume_arg, calls, at_call>>

\* lines 158-159: the range is exhausted
search_after_training ==
    /\ pc = "s_loop"
    /\ e >= config.search_epochs
    /\ calls' = Append(calls, Call("after_training", 0))
    /\ pc' = "idle"
    /\ outcome' = "returned"
    /\ UNCHANGED <<config, using_step_function, search_dir, eval_dir, errors_file,
                   errors_dict, scheduler, checkpointer, op, args,
                   start_epoch, e, step, best_arch, eval_scheduler, resume_arg, at_call>>

\* --------------------------------------------------------------- evaluate
\* What callers pass to evaluate.
SearchModel == {PyStr(""), PyStr("arch.pth")}
EvalResumeFrom == {PyStr(""), PyStr(os_path_join(save, "eval", "model_0000000.pth"))}

\* lines 209-210: the default of search_model. The statement ends with a
\* comma, so the name is bound to a 1-tuple holding the joined path.
default_search_model(search_model) ==
    IF ~Truthy(search_model)
    THEN PyTuple1(os_path_join(save, "search", "model_final.pth"))
    ELSE search_model

\* A gate that retrains whatever retrain says.
branch_ignoring_retrain(QUERYABLE, retrain) ==
    IF QUERYABLE THEN "query" ELSE "retrain"

\* lines 216, 222-224: which part of evaluate runs
branch(QUERYABLE, retrain) ==
    IF QUERYABLE THEN "query" ELSE IF retrain THEN "retrain" ELSE "test"

\* evaluate, lines 206-214: the data loaders of the evaluation, the search
\* checkpoint (loaded for the architecture; the returned epoch is dropped),
\* and the final architecture, a module the optimizer builds for the call
\* (a new torch module is in training mode).
evaluate_begin ==
    /\ pc = "idle"
    /\ \E retrain \in BOOLEAN, search_model \in SearchModel,
          resume_from \in EvalResumeFrom, QUERYABLE \in BOOLEAN :
        /\ args' = [resume_from |-> resume_from, search_model |-> search_model,
                    retrain |-> retrain]
        /\ resume_arg' = default_search_model(search_model)
        /\ best_arch' = [QUERYABLE |-> QUERYABLE, mode |-> "train"]
    /\ op' = "evaluate"
    /\ outcome' = "running"
    /\ checkpointer' = [set |-> TRUE, save_dir |-> "search",
                        max_iter |-> config.search_epochs]
    /\ at_call' = [checkpoint |-> eval_dir, len |-> Len(errors_dict.runtime),
                    logged |-> Len(errors_file.data.runtime)]
    /\ eval_scheduler' = NoScheduler
    /\ start_epoch' = 0
    /\ e' = 0
    /\ step' = 0
    /\ calls' = <<Call("setup_checkpointers", 0), Call("get_final_architecture", 0)>>
    /\ pc' = "v_gate"
    /\ UNCHANGED <<config, using_step_function, search_dir, eval_dir, errors_file,
                   errors_dict, scheduler>>

\* lines 216-221: a queryable architecture is looked up in the benchmark
evaluate_query ==
    /\ pc = "v_gate"
    /\ branch(best_arch.QUERYABLE, args.retrain) = "query"
    /\ calls' = Append(calls, Call("query", 0))
    /\ pc' = "idle"
    /\ outcome' = "returned"
    /\ UNCHANGED <<config, using_step_function, search_dir, eval_dir, errors_file,
                   errors_dict, scheduler, checkpointer, op, args, start_epoch, e,
                   step, best_arch, eval_scheduler, resume_arg, at_call>>

\* lines 223-250: to(device), reset_weights, the optimizer and the scheduler
\* of the retraining, _setup_checkpointers(resume_from, search=False, ...),
\* train()
evaluate_retrain_setup ==
    /\ pc = "v_gate"
    /\ branch(best_arch.QUERYABLE, args.retrain) = "retrain"
    /\ calls' = calls \o <<Call("to", 0), Call("reset_weights", 0),
                           Call("setup_checkpointers", 1), Call("train", 0)>>
    /\ eval_scheduler' = resume_or_load(args.resume_from, eval_dir,
                                        [set |-> TRUE, last_epoch |-> 0])
    /\ checkpointer' = [set |-> TRUE, save_dir |-> "eval",
                        max_iter |-> config.evaluation_epochs]
    /\ resume_arg' = IF Truthy(args.resume_from) THEN args.resume_from ELSE resume_arg
    /\ start_epoch' = setup_checkpointers(args.resume_from, eval_dir)
    /\ e' = setup_checkpointers(args.resume_from, eval_dir)
    /\ step' = 0
    /\ best_arch' = [best_arch EXCEPT !.mode = "train"]
    /\ pc' = "v_train"
    /\ UNCHANGED <<config, using_step_function, search_dir, eval_dir, errors_file,
                   errors_dict, scheduler, op, outcome, args, at_call>>

\* line 223, retrain false: to(device) and on to line 282
evaluate_skip_retrain ==
    /\ pc = "v_gate"
    /\ branch(best_arch.QUERYABLE, args.retrain) = "test"
    /\ calls' = Append(calls, Call("to", 0))
    /\ pc' = "v_eval_mode"
    /\ UNCHANGED <<config, using_step_function, search_dir, eval_dir, errors_file,
                   errors_dict, scheduler, checkpointer, op, outcome, args, start_epoch,
                   e, step, best_arch, eval_scheduler, resume_arg, at_call>>

\* lines 253-271: one batch of train_queue, with its optim.step()
evaluate_train_batch ==
    /\ pc = "v_train"
    /\ e < config.evaluation_epochs
    /\ step < NumTrainBatches
    /\ calls' = Append(calls, Call("optim_step", e))
    /\ step' = step + 1
    /\ UNCHANGED <<config, using_step_function, search_dir, eval_dir, errors_file,
                   errors_dict, scheduler, checkpointer, pc, op, outcome, args,
                   start_epoch, e, best_arch, eval_scheduler, resume_arg, at_call>>

\* line 273: scheduler.step()
evaluate_scheduler_step ==
    /\ pc = "v_train"
    /\ e < config.evaluation_epochs
    /\ step = NumTrainBatches
    /\ eval_scheduler' = [eval_scheduler EXCEPT !.last_epoch = @ + 1]
    /\ calls' = Append(calls, Call("scheduler_step", e))
    /\ pc' = "v_checkpoint"
    /\ UNCHANGED <<config, using_step_function, search_dir, eval_dir, errors_file,
                   errors_dict, scheduler, checkpointer, op, outcome, args,
                   start_epoch, e, step, best_arch, resume_arg, at_call>>

\* lines 274-279: self.periodic_checkpointer.step(e), and the next epoch
evaluate_checkpoint ==
    /\ pc = "v_checkpoint"
    /\ eval_dir' = periodic_checkpointer_step(e, eval_scheduler, checkpointer.max_iter)
    /\ calls' = Append(calls, Call("checkpointer_step", e))
    /\ e' = e + 1
    /\ step' = 0
    /\ pc' = "v_train"
    /\ UNCHANGED <<config, using_step_function, search_dir, errors_file,
                   errors_dict, scheduler, checkpointer, op, outcome, args,
                   start_epoch, best_arch, eval_scheduler, resume_arg, at_call>>

\* A test pass that is started without best_arch.eval().
evaluate_without_eval_mode ==
    /\ \/ pc = "v_eval_mode"
       \/ pc = "v_train" /\ e >= config.evaluation_epochs
    /\ step' = 0
    /\ pc' = "v_test"
    /\ UNCHANGED <<config, using_step_function, search_dir, eval_dir, errors_file,
                   errors_dict, scheduler, checkpointer, op, outcome, args,
                   start_epoch, e, best_arch, eval_scheduler, resume_arg, calls, at_call>>

\* lines 282-285: the retraining is over or was skipped; best_arch.eval()
evaluate_eval_mode ==
    /\ \/ pc = "v_eval_mode"
       \/ pc = "v_train" /\ e >= config.evaluation_epochs
    /\ best_arch' = [best_arch EXCEPT !.mode = "eval"]
    /\ calls' = Append(calls, Call("eval", 0))
    /\ step' = 0
    /\ pc' = "v_test"
    /\ UNCHANGED <<config, using_step_function, search_dir, eval_dir, errors_file,
                   errors_dict, scheduler, checkpointer, op, outcome, args,
                   start_epoch, e, eval_scheduler, resume_arg, at_call>>

\* lines 287-301: one batch of test_queue under torch.no_grad()
evaluate_test_batch ==
    /\ pc = "v_test"
    /\ step < NumTestBatches
    /\ calls' = Append(calls, Call("test_batch", step))
    /\ step' = step + 1
    /\ UNCHANGED <<config, using_step_function, search_dir, eval_dir, errors_file,
                   errors_dict, scheduler, checkpointer, pc, op, outcome, args,
                   start_epoch, e, best_arch, eval_scheduler, resume_arg, at_call>>

\* line 303
evaluate_finish ==
    /\ pc = "v_test"
    /\ step = NumTestBatches
    /\ pc' = "idle"
    /\ outcome' = "returned"
    /\ UNCHANGED <<config, using_step_function, search_dir, eval_dir, errors_file,
                   errors_dict, scheduler, checkpointer, op, args, start_epoch, e,
                   step, best_arch, eval_scheduler, resume_arg, calls, at_call>>

\* A call to a collaborator raises (a failing batch, a full disk, a keyboard
\* interrupt, the end of the process): the exception leaves search or
\* evaluate, which catch nothing; the locals of the call are gone.
interrupt ==
    /\ pc # "idle"
    /\ pc' = "idle"
    /\ outcome' = "interrupted"
    /\ start_epoch' = 0
    /\ e' = 0
    /\ step' = 0
    /\ calls' = <<>>
    /\ args' = NoArgs
    /\ eval_scheduler' = NoScheduler
    /\ resume_arg' = PyStr("")
    /\ at_call' = NothingFound
    /\ best_arch' = NoArch
    /\ UNCHANGED <<config, using_step_function, search_dir, eval_dir, errors_file,
                   errors_dict, scheduler, checkpointer, op>>

Next ==
    \/ TrainerInit
    \/ search_begin
    \/ search_new_epoch
    \/ search_step
    \/ search_scheduler_step
    \/ search_checkpoint
    \/ search_statistics
    \/ search_test_statistics
    \/ search_log_to_json
    \/ search_log_and_reset
    \/ search_after_training
    \/ evaluate_begin
    \/ evaluate_query
    \/ evaluate_retrain_setup
    \/ evaluate_skip_retrain
    \/ evaluate_train_batch
    \/ evaluate_scheduler_step
    \/ evaluate_checkpoint
    \/ evaluate_eval_mode
    \/ evaluate_test_batch
    \/ evaluate_finish
    \/ interrupt

Spec == Init /\ [][Next]_vars
\* ------------------------------------------------- reading the call record
Positions(name) == {i \in DOMAIN calls : calls[i].op = name}
Made(name) == SelectSeq(calls, LAMBDA c : c.op = name)
\* The arguments of the calls of `name`, in the order they were made.
Ns(name) == [i \in 1..Len(Made(name)) |-> Made(name)[i].n]
\* The same, for the calls made before position k.
NsBefore(name, k) ==
    LET made == SelectSeq(SubSeq(calls, 1, k - 1), LAMBDA c : c.op = name)
    IN  [i \in 1..Len(made) |-> made[i].n]
\* <<a, a+1, ..., b>>, empty when b < a
Range(a, b) == [i \in 1..(IF b >= a THEN b - a + 1 ELSE 0) |-> a + i - 1]
IsPrefix(s, t) == Len(s) <= Len(t) /\ \A i \in 1..Len(s) : s[i] = t[i]

\* The epoch a call resumes at, read off the disk as the call found it.
ResumesAt ==
    IF Truthy(args.resume_from) /\ at_call.checkpoint.exists
    THEN at_call.checkpoint.iteration + 1
    ELSE 0

SameLength(d, n) ==
    /\ Len(d.train_acc) = n
    /\ Len(d.train_loss) = n
    /\ Len(d.valid_acc) = n
    /\ Len(d.valid_loss) = n
    /\ Len(d.runtime) = n

JustLogged == op = "search" /\ pc = "s_reset"

\* -------------------------------------------------------------------- C1
\* C1, as stated: right after each log_to_json of a search call, the file
\* holds errors_dict; train_acc, train_loss, valid_acc, valid_loss and
\* runtime each have as many entries as epochs were executed so far in this
\* search call; test_acc and test_loss have equal length, at most that number.
C1_AsStated ==
    JustLogged =>
        /\ errors_file.exists
        /\ errors_file.data = errors_dict
        /\ SameLength(errors_file.data, Len(Ns("new_epoch")))
        /\ Len(errors_file.data.test_acc) = Len(errors_file.data.test_loss)
        /\ Len(errors_file.data.test_acc) <= Len(Ns("new_epoch"))

\* C1, amended: the same, with the common length equal to the number of
\* entries errors_dict held when search was called (none for a new Trainer:
\* only __init__ empties it) plus the epochs executed so far in this call.
C1_LoggedLengths ==
    JustLogged =>
        /\ errors_file.exists
        /\ errors_file.data = errors_dict
        /\ SameLength(errors_file.data, at_call.len + Len(Ns("new_epoch")))
        /\ Len(errors_file.data.test_acc) = Len(errors_file.data.test_loss)
        /\ Len(errors_file.data.test_acc) <= at_call.len + Len(Ns("new_epoch"))

\* A second search call on a Trainer logs an epoch, with anytime results for
\* some epochs only.
C1_Witness ==
    /\ JustLogged
    /\ at_call.len > 0
    /\ Len(Ns("new_epoch")) > 0
    /\ Len(errors_dict.test_acc) > 0
    /\ Len(errors_dict.test_acc) < Len(errors_dict.runtime)

\* -------------------------------------------------------------------- C2
\* C2: the epochs a search call starts are, in order, k+1, k+2, ... when
\* resume_from is given and the checkpoint found holds iteration k, and
\* 0, 1, ... otherwise; a call that returns has started all of them up to
\* epochs-1, each once.
C2_ResumedEpochs ==
    (op = "search" /\ outcome \in {"running", "returned"}) =>
        /\ IsPrefix(Ns("new_epoch"), Range(ResumesAt, config.search_epochs - 1))
        /\ outcome = "returned" =>
               Ns("new_epoch") = Range(ResumesAt, config.search_epochs - 1)

\* A search resumed from the checkpoint of epoch 0 returns after epoch 1 alone.
C2_Witness ==
    /\ op = "search"
    /\ outcome = "returned"
    /\ Truthy(args.resume_from)
    /\ at_call.checkpoint.exists
    /\ at_call.checkpoint.iteration = 0
    /\ Ns("new_epoch") = <<1>>

\* -------------------------------------------------------------------- C3
\* C3: when search returns on a new Trainer, started fresh or resumed from the
\* checkpoint of an epoch before the last by a run whose every finished epoch
\* was in the file, the statistics file holds config.search.epochs entries in
\* each of train_acc, train_loss, valid_acc, valid_loss and runtime.
C3_OneEntryPerEpoch ==
    (/\ op = "search"
     /\ outcome = "returned"
     /\ at_call.len = 0
     /\ ResumesAt < config.search_epochs
     /\ ResumesAt > 0 => at_call.logged = ResumesAt) =>
        /\ errors_file.exists
        /\ SameLength(errors_file.data, config.search_epochs)

\* -------------------------------------------------------------------- C5
\* C5: search on an optimizer that uses no step function raises no error.
C5_NoStepFunctionWorks ==
    (op = "search" /\ ~using_step_function) => outcome # "AttributeError"

\* -------------------------------------------------------------------- C6
\* C6: with an empty search_model, evaluate passes the path string
\* <config.save>/search/model_final.pth to _setup_checkpointers and on to
\* checkpointer.resume_or_load.
C6_DefaultIsPathString ==
    (op = "evaluate" /\ pc = "v_gate" /\ ~Truthy(args.search_model)) =>
        resume_arg = PyStr(os_path_join(save, "search", "model_final.pth"))

\* -------------------------------------------------------------------- C7
NoneMade(names) == \A i \in DOMAIN calls : calls[i].op \notin names
\* The second _setup_checkpointers of an evaluate call is the one of the
\* evaluation checkpointer (search=False).
EvalSetupMade == \E i \in DOMAIN calls : calls[i] = Call("setup_checkpointers", 1)
Retraining == {"reset_weights", "optim_step", "scheduler_step", "checkpointer_step", "train"}

\* C7: a queryable architecture is only queried (no weight reset, training
\* step, evaluation checkpoint or test inference); a non-queryable one with
\* retrain false has no weight reset, optimizer step or evaluation
\* checkpointer, and its test pass runs; retraining calls are made only for a
\* non-queryable architecture with retrain true.
C7_Gating ==
    (op = "evaluate" /\ outcome \in {"running", "returned"}) =>
        /\ best_arch.QUERYABLE =>
              /\ NoneMade(Retraining \cup {"test_batch", "eval", "to"})
              /\ ~EvalSetupMade
              /\ outcome = "returned" => Len(Made("query")) = 1
        /\ (~best_arch.QUERYABLE /\ ~args.retrain) =>
              /\ NoneMade(Retraining \cup {"query"})
              /\ ~EvalSetupMade
              /\ outcome = "returned" => Ns("test_batch") = Range(0, NumTestBatches - 1)
        /\ (~NoneMade(Retraining) \/ EvalSetupMade) =>
              (~best_arch.QUERYABLE /\ args.retrain)

\* evaluate(retrain=False) on a non-queryable architecture has returned.
C7_Witness ==
    /\ op = "evaluate"
    /\ outcome = "returned"
    /\ ~best_arch.QUERYABLE
    /\ ~args.retrain
    /\ Len(Made("test_batch")) = NumTestBatches

\* -------------------------------------------------------------------- C4
\* C4: in evaluate with a non-queryable architecture and retrain true,
\* reset_weights comes before every optimizer step; when a test batch is
\* evaluated every epoch start_epoch..evaluation.epochs-1 has had all its
\* batches, its scheduler step and its checkpoint step, the model is in eval
\* mode and no optimizer step follows; the test pass of a call that returns
\* visited the batches 0..N-1, each once.
C4_RetrainThenTest ==
    (op = "evaluate" /\ outcome \in {"running", "returned"}
        /\ ~best_arch.QUERYABLE /\ args.retrain) =>
        /\ \A i \in Positions("optim_step") :
              \E j \in Positions("reset_weights") : j < i
        /\ \A i \in Positions("test_batch") :
              /\ NsBefore("scheduler_step", i) =
                    Range(ResumesAt, config.evaluation_epochs - 1)
              /\ NsBefore("checkpointer_step", i) =
                    Range(ResumesAt, config.evaluation_epochs - 1)
              /\ \A ep \in ResumesAt..(config.evaluation_epochs - 1) :
                    Cardinality({j \in Positions("optim_step") : calls[j].n = ep})
                        = NumTrainBatches
              /\ \E j \in Positions("eval") : j < i
              /\ \A j \in Positions("optim_step") \cup Positions("train") : j < i
        /\ pc = "v_test" => best_arch.mode = "eval"
        /\ IsPrefix(Ns("test_batch"), Range(0, NumTestBatches - 1))
        /\ outcome = "returned" => Ns("test_batch") = Range(0, NumTestBatches - 1)

\* A retraining of more than one epoch has been followed by the whole test pass.
C4_Witness ==
    /\ op = "evaluate"
    /\ outcome = "returned"
    /\ ~best_arch.QUERYABLE
    /\ args.retrain
    /\ Len(Made("optim_step")) > NumTrainBatches
    /\ Len(Made("test_batch")) = NumTestBatches

\* -------------------------------------------------------------------- C8
\* The steps of one loop (the step-function search or the retraining): the
\* checkpoint steps are those of the epochs from the resumed one on, each
\* once and in order, each right after the scheduler step of its epoch, and
\* an epoch starts only when the one before it has had its checkpoint step.
StepsInOrder(epochs, started) ==
    /\ IsPrefix(Ns("checkpointer_step"), Range(ResumesAt, epochs - 1))
    /\ \A i \in Positions("checkpointer_step") :
          i > 1 /\ calls[i - 1] = Call("scheduler_step", calls[i].n)
    /\ Len(Ns("scheduler_step")) - Len(Ns("checkpointer_step")) \in {0, 1}
    /\ started - Len(Ns("checkpointer_step")) \in {0, 1}

\* C8: in step-function search and in the retraining loop of evaluate,
\* periodic_checkpointer.step(e) is called once per epoch, after the
\* scheduler step of the epoch and before the next epoch starts; a checkpoint
\* of epoch e holds a scheduler stepped e+1 times; and while epoch e runs its
\* batches, fresh or resumed, the scheduler has been stepped e times.
C8_SchedulerMatchesEpoch ==
    /\ search_dir.exists => search_dir.scheduler = search_dir.iteration + 1
    /\ eval_dir.exists => eval_dir.scheduler = eval_dir.iteration + 1
    /\ (op = "search" /\ outcome \in {"running", "returned"}) =>
          /\ StepsInOrder(config.search_epochs, Len(Ns("new_epoch")))
          /\ pc = "s_batch" => scheduler.last_epoch = e
          /\ pc = "s_checkpoint" => scheduler.last_epoch = e + 1
          /\ outcome = "returned" =>
                Ns("checkpointer_step") = Range(ResumesAt, config.search_epochs - 1)
    /\ (op = "evaluate" /\ outcome \in {"running", "returned"} /\ EvalSetupMade) =>
          /\ StepsInOrder(config.evaluation_epochs,
                          Cardinality({calls[i].n : i \in Positions("optim_step")}))
          /\ pc = "v_train" => eval_scheduler.last_epoch = e
          /\ pc = "v_checkpoint" => eval_scheduler.last_epoch = e + 1
          /\ pc = "v_test" =>
                Ns("checkpointer_step") = Range(ResumesAt, config.evaluation_epochs - 1)

\* A retraining resumed from the checkpoint of epoch 0 runs the batches of
\* epoch 1, on a disk where a search has written its checkpoints.
C8_Witness ==
    /\ op = "evaluate"
    /\ pc = "v_train"
    /\ Truthy(args.resume_from)
    /\ at_call.checkpoint.exists
    /\ e = 1
    /\ e < config.evaluation_epochs
    /\ eval_scheduler.last_epoch = 1
    /\ Len(Ns("optim_step")) = 0
    /\ search_dir.exists
    /\ search_dir.iteration = 1
====
